---- MODULE Spec2Model ----
(***************************************************************************)
(* raylib [shaders] example - Hybrid Rendering                             *)
(* (examples/shaders/shaders_hybrid_render.c).                             *)
(*                                                                         *)
(* Two specifications over the same state:                                 *)
(*   Spec    the program main(): start-up, frame loop, shutdown;           *)
(*   SpecRT  LoadRenderTextureDepthTex / UnloadRenderTextureDepthTex       *)
(*           applied to width and height drawn from a bounded set, in      *)
(*           create-then-destroy cycles.                                   *)
(* The GPU abstraction layer (rlgl) is not part of the file; it is the     *)
(* environment: each allocation returns 0 or an unused handle, and the     *)
(* completeness check returns either answer.                               *)
(***************************************************************************)
EXTENDS Integers, Sequences, FiniteSets, TLC

VARIABLES
    pc,               \* position in main (Spec) or in the create/destroy cycle (SpecRT)
    raymarch_shader,  \* main: Shader raymarch_shader (program id, 0 before LoadShader)
    raster_shader,    \* main: Shader raster_shader
    progs,            \* GPU: live shader programs
    march_locs,       \* main: RayLocs march_locs
    resolveCount,     \* history: GetShaderLocation calls per uniform name
    uni,              \* GPU: uniform values held by the raymarch program
    uploadCount,      \* history: SetShaderValue calls per uniform name
    uploadCalls,      \* history: the (shader, location) pairs passed to SetShaderValue
    target,           \* main: RenderTexture2D target
    gpu,              \* GPU: live handles, attachments, bound framebuffer, shader, depth test
    glog,             \* history: rlgl calls of the last Load/Unload invocation
    tracelog,         \* history: TRACELOG levels of the last Load invocation
    liveBefore,       \* history: live handles when the last Load was entered
    req,              \* history: arguments of the last Load invocation
    createCalls,      \* history: number of LoadRenderTextureDepthTex calls
    unloadCalls,      \* history: number of UnloadRenderTextureDepthTex calls
    camera,           \* main: Camera camera (position, target on one axis)
    frames,           \* history: completed frame-loop iterations
    frameLog,         \* history: steps of the current (or just finished) frame
    scopes            \* history: stack of open Begin.. scopes

vars == <<pc, raymarch_shader, raster_shader, progs, march_locs, resolveCount,
          uni, uploadCount, uploadCalls, target, gpu, glog, tracelog, liveBefore,
          req, createCalls, unloadCalls, camera, frames, frameLog, scopes>>

shaderVars == <<raymarch_shader, raster_shader, progs, march_locs, resolveCount>>
uniVars    == <<uni, uploadCount, uploadCalls>>
rtVars     == <<target, glog, tracelog, liveBefore, req, createCalls, unloadCalls>>
loopVars   == <<camera, frames, frameLog, scopes>>

----------------------------------------------------------------------------
(* Bounds of the model *)

MaxFrames == 2      \* frame-loop iterations explored
MaxCycles == 2      \* create/destroy cycles explored in SpecRT
MaxDim    == 2      \* width and height are drawn from 0..MaxDim in SpecRT
MaxFb     == 2      \* framebuffer handles 1..MaxFb
MaxTex    == 3      \* texture handles 1..MaxTex
MaxProg   == 2      \* shader program handles 1..MaxProg
MaxCoord  == 1      \* camera coordinates 0..MaxCoord

FbPool   == 1..MaxFb
TexPool  == 1..MaxTex
ProgPool == 1..MaxProg
Dims     == 0..MaxDim
Coords   == 0..MaxCoord

----------------------------------------------------------------------------
(* Program constants *)

screenWidth  == 800
screenHeight == 450
camDist      == 2414    \* 1.0/tan(45*0.5*DEG2RAD), in thousandths

UniformNames == {"camPos", "camDir", "screenCenter"}

ZeroTexture == [id |-> 0, width |-> 0, height |-> 0, format |-> "0", mipmaps |-> 0]
ZeroTarget  == [id |-> 0, texture |-> ZeroTexture, depth |-> ZeroTexture]
ZeroLoc     == [prog |-> 0, name |-> "0"]
ZeroLocs    == [camPos |-> ZeroLoc, camDir |-> ZeroLoc, screenCenter |-> ZeroLoc]

----------------------------------------------------------------------------
(* The GPU abstraction layer: state and the effect of each rlgl call *)

Call(op, fb, tex, slot, ret) ==
    [op |-> op, fb |-> fb, tex |-> tex, slot |-> slot, ret |-> ret]

DepthAttached(g, fb) ==
    {a.tex : a \in {x \in g.attach : x.fb = fb /\ x.slot = "RL_ATTACHMENT_DEPTH"}}

GpuApply(g, c) ==
    CASE c.op = "rlLoadFramebuffer" ->
            IF c.ret > 0 THEN [g EXCEPT !.liveFb = @ \cup {c.ret}] ELSE g
      [] c.op \in {"rlLoadTexture", "rlLoadTextureDepth"} ->
            IF c.ret > 0 THEN [g EXCEPT !.liveTex = @ \cup {c.ret}] ELSE g
      [] c.op = "rlEnableFramebuffer" -> [g EXCEPT !.boundFb = c.fb]
      [] c.op = "rlDisableFramebuffer" -> [g EXCEPT !.boundFb = 0]
      [] c.op = "rlFramebufferAttach" ->
            [g EXCEPT !.attach =
                {a \in @ : ~(a.fb = c.fb /\ a.slot = c.slot)}
                \cup (IF c.tex > 0
                      THEN {[fb |-> c.fb, tex |-> c.tex, slot |-> c.slot]}
                      ELSE {})]
      [] c.op = "rlUnloadTexture" -> [g EXCEPT !.liveTex = @ \ {c.tex}]
      [] c.op = "rlUnloadFramebuffer" ->
            [g EXCEPT !.liveTex = @ \ DepthAttached(g, c.fb),
                      !.liveFb  = @ \ {c.fb},
                      !.attach  = {a \in @ : a.fb # c.fb},
                      !.boundFb = IF @ = c.fb THEN 0 ELSE @]
      [] OTHER -> g

RECURSIVE GpuRun(_, _)
GpuRun(g, calls) ==
    IF calls = <<>> THEN g ELSE GpuRun(GpuApply(g, Head(calls)), Tail(calls))

\* What an allocation can return: 0, or a handle that is not live
rlLoadFramebufferResults(g) == {0} \cup (FbPool \ g.liveFb)
rlLoadTextureResults(g, taken) == {0} \cup (TexPool \ (g.liveTex \cup taken))
\* A framebuffer with no image attached is never complete
rlFramebufferCompleteResults(texId, depthId) ==
    IF texId = 0 /\ depthId = 0 THEN {FALSE} ELSE BOOLEAN

----------------------------------------------------------------------------
(* LoadRenderTextureDepthTex *)

\* Faulty variant: the depth texture's width and height are exchanged
LoadTarget_DepthSwapped(id, texId, depthId, width, height) ==
    IF id > 0
    THEN [id |-> id,
          texture |-> [id |-> texId, width |-> width, height |-> height,
                       format |-> "PIXELFORMAT_UNCOMPRESSED_R8G8B8A8", mipmaps |-> 1],
          depth   |-> [id |-> depthId, width |-> height, height |-> width,
                       format |-> "19", mipmaps |-> 1]]
    ELSE ZeroTarget

LoadTarget(id, texId, depthId, width, height) ==
    IF id > 0
    THEN [id |-> id,
          texture |-> [id |-> texId, width |-> width, height |-> height,
                       format |-> "PIXELFORMAT_UNCOMPRESSED_R8G8B8A8", mipmaps |-> 1],
          depth   |-> [id |-> depthId, width |-> width, height |-> height,
                       format |-> "19", mipmaps |-> 1]]
    ELSE ZeroTarget

\* Faulty variant: the body runs without the test of target.id
LoadCalls_Unguarded(id, texId, depthId, complete) ==
    << Call("rlLoadFramebuffer", 0, 0, "-", id),
       Call("rlEnableFramebuffer", id, 0, "-", 0),
       Call("rlLoadTexture", 0, 0, "-", texId),
       Call("rlLoadTextureDepth", 0, 0, "-", depthId),
       Call("rlFramebufferAttach", id, texId, "RL_ATTACHMENT_COLOR_CHANNEL0", 0),
       Call("rlFramebufferAttach", id, depthId, "RL_ATTACHMENT_DEPTH", 0),
       Call("rlFramebufferComplete", id, 0, "-", IF complete THEN 1 ELSE 0),
       Call("rlDisableFramebuffer", 0, 0, "-", 0) >>

\* Faulty variant: rlDisableFramebuffer() is missing
LoadCalls_NoDisable(id, texId, depthId, complete) ==
    IF id > 0
    THEN << Call("rlLoadFramebuffer", 0, 0, "-", id),
            Call("rlEnableFramebuffer", id, 0, "-", 0),
            Call("rlLoadTexture", 0, 0, "-", texId),
            Call("rlLoadTextureDepth", 0, 0, "-", depthId),
            Call("rlFramebufferAttach", id, texId, "RL_ATTACHMENT_COLOR_CHANNEL0", 0),
            Call("rlFramebufferAttach", id, depthId, "RL_ATTACHMENT_DEPTH", 0),
            Call("rlFramebufferComplete", id, 0, "-", IF complete THEN 1 ELSE 0) >>
    ELSE << Call("rlLoadFramebuffer", 0, 0, "-", id) >>

LoadCalls(id, texId, depthId, complete) ==
    IF id > 0
    THEN << Call("rlLoadFramebuffer", 0, 0, "-", id),
            Call("rlEnableFramebuffer", id, 0, "-", 0),
            Call("rlLoadTexture", 0, 0, "-", texId),
            Call("rlLoadTextureDepth", 0, 0, "-", depthId),
            Call("rlFramebufferAttach", id, texId, "RL_ATTACHMENT_COLOR_CHANNEL0", 0),
            Call("rlFramebufferAttach", id, depthId, "RL_ATTACHMENT_DEPTH", 0),
            Call("rlFramebufferComplete", id, 0, "-", IF complete THEN 1 ELSE 0),
            Call("rlDisableFramebuffer", 0, 0, "-", 0) >>
    ELSE << Call("rlLoadFramebuffer", 0, 0, "-", id) >>

LoadTrace(id, complete) ==
    IF id > 0
    THEN (IF complete THEN <<"LOG_INFO">> ELSE <<>>)
    ELSE <<"LOG_WARNING">>

LoadRenderTextureDepthTex(width, height) ==
    \E id \in rlLoadFramebufferResults(gpu) :
    \E texId \in (IF id > 0 THEN rlLoadTextureResults(gpu, {}) ELSE {0}) :
    \E depthId \in (IF id > 0 THEN rlLoadTextureResults(gpu, {texId}) ELSE {0}) :
    \E complete \in (IF id > 0 THEN rlFramebufferCompleteResults(texId, depthId)
                               ELSE {FALSE}) :
        /\ target' = LoadTarget(id, texId, depthId, width, height)
        /\ glog' = LoadCalls(id, texId, depthId, complete)
        /\ gpu' = GpuRun(gpu, glog')
        /\ tracelog' = LoadTrace(id, complete)
        /\ liveBefore' = [fb |-> gpu.liveFb, tex |-> gpu.liveTex]
        /\ req' = [width |-> width, height |-> height]
        /\ createCalls' = createCalls + 1

----------------------------------------------------------------------------
(* UnloadRenderTextureDepthTex *)

\* Faulty variant: the framebuffer is released before its textures
UnloadCalls_FbFirst(t) ==
    IF t.id > 0
    THEN << Call("rlUnloadFramebuffer", t.id, 0, "-", 0),
            Call("rlUnloadTexture", 0, t.texture.id, "-", 0),
            Call("rlUnloadTexture", 0, t.depth.id, "-", 0) >>
    ELSE <<>>

\* Faulty variant: the color texture is not released
UnloadCalls_NoColor(t) ==
    IF t.id > 0
    THEN << Call("rlUnloadTexture", 0, t.depth.id, "-", 0),
            Call("rlUnloadFramebuffer", t.id, 0, "-", 0) >>
    ELSE <<>>

UnloadCalls(t) ==
    IF t.id > 0
    THEN << Call("rlUnloadTexture", 0, t.texture.id, "-", 0),
            Call("rlUnloadTexture", 0, t.depth.id, "-", 0),
            Call("rlUnloadFramebuffer", t.id, 0, "-", 0) >>
    ELSE <<>>

UnloadRenderTextureDepthTex(t) ==
    /\ glog' = UnloadCalls(t)
    /\ gpu' = GpuRun(gpu, glog')
    /\ unloadCalls' = unloadCalls + 1
    /\ UNCHANGED <<target, tracelog, liveBefore, req, createCalls>>

----------------------------------------------------------------------------
(* main: initialization (lines 50-91) *)

Init ==
    /\ pc = "InitWindow"
    /\ raymarch_shader = 0
    /\ raster_shader = 0
    /\ progs = {}
    /\ march_locs = ZeroLocs
    /\ resolveCount = [n \in UniformNames |-> 0]
    /\ uni = [camPos |-> 0, camDir |-> 0, screenCenter |-> <<0, 0>>]
    /\ uploadCount = [n \in UniformNames |-> 0]
    /\ uploadCalls = {}
    /\ target = ZeroTarget
    /\ gpu = [liveFb |-> {}, liveTex |-> {}, attach |-> {}, boundFb |-> 0,
              shader |-> 0, depthTest |-> FALSE]
    /\ glog = <<>>
    /\ tracelog = <<>>
    /\ liveBefore = [fb |-> {}, tex |-> {}]
    /\ req = [width |-> 0, height |-> 0]
    /\ createCalls = 0
    /\ unloadCalls = 0
    /\ camera = [position |-> 0, target |-> 0]
    /\ frames = 0
    /\ frameLog = <<>>
    /\ scopes = <<>>

\* InitWindow creates the GL context; the library may already hold a texture
InitWindow ==
    /\ pc = "InitWindow"
    /\ \E held \in {{}, {1}} : gpu' = [gpu EXCEPT !.liveTex = held]
    /\ pc' = "LoadShader_raymarch"
    /\ UNCHANGED <<shaderVars, uniVars, rtVars, loopVars>>

LoadShader_raymarch ==
    /\ pc = "LoadShader_raymarch"
    /\ \E id \in ProgPool \ progs :
          /\ raymarch_shader' = id
          /\ progs' = progs \cup {id}
    /\ pc' = "LoadShader_raster"
    /\ UNCHANGED <<raster_shader, march_locs, resolveCount, uniVars, rtVars, gpu,
                   loopVars>>

LoadShader_raster ==
    /\ pc = "LoadShader_raster"
    /\ \E id \in ProgPool \ progs :
          /\ raster_shader' = id
          /\ progs' = progs \cup {id}
    /\ pc' = "GetShaderLocation_camPos"
    /\ UNCHANGED <<raymarch_shader, march_locs, resolveCount, uniVars, rtVars, gpu,
                   loopVars>>

\* The location of uniform `name` in program `shader`
GetShaderLocation(shader, name) == [prog |-> shader, name |-> name]

GetShaderLocation_camPos ==
    /\ pc = "GetShaderLocation_camPos"
    /\ march_locs' = [march_locs EXCEPT !.camPos = GetShaderLocation(raymarch_shader, "camPos")]
    /\ resolveCount' = [resolveCount EXCEPT !["camPos"] = @ + 1]
    /\ pc' = "GetShaderLocation_camDir"
    /\ UNCHANGED <<raymarch_shader, raster_shader, progs, uniVars, rtVars, gpu, loopVars>>

\* Faulty variant: camDir is resolved against the raster shader
GetShaderLocation_camDir_Raster ==
    /\ pc = "GetShaderLocation_camDir"
    /\ march_locs' = [march_locs EXCEPT !.camDir = GetShaderLocation(raster_shader, "camDir")]
    /\ resolveCount' = [resolveCount EXCEPT !["camDir"] = @ + 1]
    /\ pc' = "GetShaderLocation_screenCenter"
    /\ UNCHANGED <<raymarch_shader, raster_shader, progs, uniVars, rtVars, gpu, loopVars>>

GetShaderLocation_camDir ==
    /\ pc = "GetShaderLocation_camDir"
    /\ march_locs' = [march_locs EXCEPT !.camDir = GetShaderLocation(raymarch_shader, "camDir")]
    /\ resolveCount' = [resolveCount EXCEPT !["camDir"] = @ + 1]
    /\ pc' = "GetShaderLocation_screenCenter"
    /\ UNCHANGED <<raymarch_shader, raster_shader, progs, uniVars, rtVars, gpu, loopVars>>

GetShaderLocation_screenCenter ==
    /\ pc = "GetShaderLocation_screenCenter"
    /\ march_locs' = [march_locs EXCEPT
                        !.screenCenter = GetShaderLocation(raymarch_shader, "screenCenter")]
    /\ resolveCount' = [resolveCount EXCEPT !["screenCenter"] = @ + 1]
    /\ pc' = "SetShaderValue_screenCenter"
    /\ UNCHANGED <<raymarch_shader, raster_shader, progs, uniVars, rtVars, gpu, loopVars>>

\* SetShaderValue(shader, loc, value): the value reaches the uniform the
\* location names, in the program the location was resolved against
SetShaderValue(shader, loc, value) ==
    /\ uploadCalls' = uploadCalls \cup {[shader |-> shader, loc |-> loc]}
    /\ uploadCount' = IF loc.name \in UniformNames
                       THEN [uploadCount EXCEPT ![loc.name] = @ + 1]
                       ELSE uploadCount
    /\ uni' = IF loc.prog = raymarch_shader /\ shader = raymarch_shader
                 /\ loc.name \in UniformNames
              THEN [uni EXCEPT ![loc.name] = value]
              ELSE uni

SetShaderValue_screenCenter ==
    /\ pc = "SetShaderValue_screenCenter"
    /\ SetShaderValue(raymarch_shader, march_locs.screenCenter,
                      <<screenWidth \div 2, screenHeight \div 2>>)
    /\ pc' = "LoadRenderTextureDepthTex"
    /\ UNCHANGED <<shaderVars, rtVars, gpu, loopVars>>

CreateTarget ==
    /\ pc = "LoadRenderTextureDepthTex"
    /\ LoadRenderTextureDepthTex(screenWidth, screenHeight)
    /\ pc' = "SetupCamera"
    /\ UNCHANGED <<shaderVars, uniVars, unloadCalls, loopVars>>

\* Camera camera = {...}; camDist; SetCameraMode; SetTargetFPS.
\* position z = 1.5 and target z = 0.0 on the model's axis: 1 and 0
SetupCamera ==
    /\ pc = "SetupCamera"
    /\ camera' = [position |-> 1, target |-> 0]
    /\ pc' = "WindowShouldClose"
    /\ UNCHANGED <<shaderVars, uniVars, rtVars, gpu, frames, frameLog, scopes>>

----------------------------------------------------------------------------
(* main: the frame loop (lines 95-143) *)

Log(step, g) ==
    Append(frameLog, [step |-> step, fb |-> g.boundFb, shader |-> g.shader,
                      depthTest |-> g.depthTest])

Push(kind) == Append(scopes, kind)
Pop == IF scopes = <<>> THEN <<>> ELSE SubSeq(scopes, 1, Len(scopes) - 1)

\* One statement of the loop body: from `step` to `next`, leaving the GPU
\* state g and the scope stack sc
FrameStep(step, next, g, sc) ==
    /\ pc = step
    /\ pc' = next
    /\ gpu' = g
    /\ scopes' = sc
    /\ frameLog' = Log(step, g)
    /\ UNCHANGED <<shaderVars, rtVars, frames>>

WindowShouldClose ==
    /\ pc = "WindowShouldClose"
    /\ \/ /\ pc' = "UnloadRenderTextureDepthTex"
          /\ UNCHANGED frameLog
       \/ /\ frames < MaxFrames
          /\ pc' = "UpdateCamera"
          /\ frameLog' = <<>>
    /\ UNCHANGED <<shaderVars, uniVars, rtVars, gpu, camera, frames, scopes>>

UpdateCamera ==
    /\ \E p \in Coords, t \in Coords : camera' = [position |-> p, target |-> t]
    /\ FrameStep("UpdateCamera", "SetShaderValue_camPos", gpu, scopes)
    /\ UNCHANGED uniVars

SetShaderValue_camPos ==
    /\ SetShaderValue(raymarch_shader, march_locs.camPos, camera.position)
    /\ FrameStep("SetShaderValue_camPos", "SetShaderValue_camDir", gpu, scopes)
    /\ UNCHANGED camera

Vector3Subtract(v1, v2) == v1 - v2
\* A zero vector stays zero
Vector3Normalize(v) == IF v > 0 THEN 1 ELSE IF v < 0 THEN -1 ELSE 0
Vector3Scale(v, scalar) == v * scalar

SetShaderValue_camDir ==
    /\ SetShaderValue(raymarch_shader, march_locs.camDir,
                      Vector3Scale(Vector3Normalize(
                          Vector3Subtract(camera.target, camera.position)), camDist))
    /\ FrameStep("SetShaderValue_camDir", "BeginTextureMode", gpu, scopes)
    /\ UNCHANGED camera

BeginTextureMode ==
    /\ FrameStep("BeginTextureMode", "ClearBackground_target",
                 [gpu EXCEPT !.boundFb = target.id], Push("texture"))
    /\ UNCHANGED <<uniVars, camera>>

ClearBackground_target ==
    /\ FrameStep("ClearBackground_target", "rlEnableDepthTest", gpu, scopes)
    /\ UNCHANGED <<uniVars, camera>>

\* Faulty variant: the depth test is not enabled
rlEnableDepthTest_Missing ==
    /\ pc = "rlEnableDepthTest"
    /\ pc' = "BeginShaderMode_raymarch"
    /\ UNCHANGED <<shaderVars, uniVars, rtVars, gpu, loopVars>>

rlEnableDepthTest ==
    /\ FrameStep("rlEnableDepthTest", "BeginShaderMode_raymarch",
                 [gpu EXCEPT !.depthTest = TRUE], scopes)
    /\ UNCHANGED <<uniVars, camera>>

BeginShaderMode_raymarch ==
    /\ FrameStep("BeginShaderMode_raymarch", "DrawRectangleRec",
                 [gpu EXCEPT !.shader = raymarch_shader], Push("shader"))
    /\ UNCHANGED <<uniVars, camera>>

DrawRectangleRec ==
    /\ FrameStep("DrawRectangleRec", "EndShaderMode_raymarch", gpu, scopes)
    /\ UNCHANGED <<uniVars, camera>>

EndShaderMode_raymarch ==
    /\ FrameStep("EndShaderMode_raymarch", "BeginMode3D",
                 [gpu EXCEPT !.shader = 0], Pop)
    /\ UNCHANGED <<uniVars, camera>>

BeginMode3D ==
    /\ FrameStep("BeginMode3D", "BeginShaderMode_raster", gpu, Push("3d"))
    /\ UNCHANGED <<uniVars, camera>>

BeginShaderMode_raster ==
    /\ FrameStep("BeginShaderMode_raster", "DrawScene3D",
                 [gpu EXCEPT !.shader = raster_shader], Push("shader"))
    /\ UNCHANGED <<uniVars, camera>>

\* DrawCubeWiresV, DrawCubeV, DrawCubeWiresV, DrawCubeV, DrawGrid
DrawScene3D ==
    /\ FrameStep("DrawScene3D", "EndShaderMode_raster", gpu, scopes)
    /\ UNCHANGED <<uniVars, camera>>

EndShaderMode_raster ==
    /\ FrameStep("EndShaderMode_raster", "EndMode3D", [gpu EXCEPT !.shader = 0], Pop)
    /\ UNCHANGED <<uniVars, camera>>

EndMode3D ==
    /\ FrameStep("EndMode3D", "EndTextureMode", gpu, Pop)
    /\ UNCHANGED <<uniVars, camera>>

EndTextureMode ==
    /\ FrameStep("EndTextureMode", "BeginDrawing", [gpu EXCEPT !.boundFb = 0], Pop)
    /\ UNCHANGED <<uniVars, camera>>

BeginDrawing ==
    /\ FrameStep("BeginDrawing", "ClearBackground_window", gpu, Push("drawing"))
    /\ UNCHANGED <<uniVars, camera>>

ClearBackground_window ==
    /\ FrameStep("ClearBackground_window", "DrawTextureRec", gpu, scopes)
    /\ UNCHANGED <<uniVars, camera>>

DrawTextureRec ==
    /\ FrameStep("DrawTextureRec", "DrawFPS", gpu, scopes)
    /\ UNCHANGED <<uniVars, camera>>

DrawFPS ==
    /\ FrameStep("DrawFPS", "EndDrawing", gpu, scopes)
    /\ UNCHANGED <<uniVars, camera>>

EndDrawing ==
    /\ pc = "EndDrawing"
    /\ pc' = "WindowShouldClose"
    /\ scopes' = Pop
    /\ frameLog' = Log("EndDrawing", gpu)
    /\ frames' = frames + 1
    /\ UNCHANGED <<shaderVars, uniVars, rtVars, gpu, camera>>

----------------------------------------------------------------------------
(* main: de-initialization (lines 147-151) *)

\* Faulty variant: the target is not unloaded
DestroyTarget_Missing ==
    /\ pc = "UnloadRenderTextureDepthTex"
    /\ pc' = "UnloadShader_raymarch"
    /\ UNCHANGED <<shaderVars, uniVars, rtVars, gpu, loopVars>>

DestroyTarget ==
    /\ pc = "UnloadRenderTextureDepthTex"
    /\ UnloadRenderTextureDepthTex(target)
    /\ pc' = "UnloadShader_raymarch"
    /\ UNCHANGED <<shaderVars, uniVars, loopVars>>

UnloadShader_raymarch ==
    /\ pc = "UnloadShader_raymarch"
    /\ progs' = progs \ {raymarch_shader}
    /\ pc' = "UnloadShader_raster"
    /\ UNCHANGED <<raymarch_shader, raster_shader, march_locs, resolveCount, uniVars,
                   rtVars, gpu, loopVars>>

UnloadShader_raster ==
    /\ pc = "UnloadShader_raster"
    /\ progs' = progs \ {raster_shader}
    /\ pc' = "CloseWindow"
    /\ UNCHANGED <<raymarch_shader, raster_shader, march_locs, resolveCount, uniVars,
                   rtVars, gpu, loopVars>>

CloseWindow ==
    /\ pc = "CloseWindow"
    /\ pc' = "done"
    /\ UNCHANGED <<shaderVars, uniVars, rtVars, gpu, loopVars>>

Next ==
    \/ InitWindow
    \/ LoadShader_raymarch
    \/ LoadShader_raster
    \/ GetShaderLocation_camPos
    \/ GetShaderLocation_camDir
    \/ GetShaderLocation_screenCenter
    \/ SetShaderValue_screenCenter
    \/ CreateTarget
    \/ SetupCamera
    \/ WindowShouldClose
    \/ UpdateCamera
    \/ SetShaderValue_camPos
    \/ SetShaderValue_camDir
    \/ BeginTextureMode
    \/ ClearBackground_target
    \/ rlEnableDepthTest
    \/ BeginShaderMode_raymarch
    \/ DrawRectangleRec
    \/ EndShaderMode_raymarch
    \/ BeginMode3D
    \/ BeginShaderMode_raster
    \/ DrawScene3D
    \/ EndShaderMode_raster
    \/ EndMode3D
    \/ EndTextureMode
    \/ BeginDrawing
    \/ ClearBackground_window
    \/ DrawTextureRec
    \/ DrawFPS
    \/ EndDrawing
    \/ DestroyTarget
    \/ UnloadShader_raymarch
    \/ UnloadShader_raster
    \/ CloseWindow

Spec == Init /\ [][Next]_vars

----------------------------------------------------------------------------
(* LoadRenderTextureDepthTex and UnloadRenderTextureDepthTex on their own:  *)
(* any width and height, any live handles on entry, repeated cycles         *)

InitRT ==
    /\ pc = "rt_idle"
    /\ raymarch_shader = 0
    /\ raster_shader = 0
    /\ progs = {}
    /\ march_locs = ZeroLocs
    /\ resolveCount = [n \in UniformNames |-> 0]
    /\ uni = [camPos |-> 0, camDir |-> 0, screenCenter |-> <<0, 0>>]
    /\ uploadCount = [n \in UniformNames |-> 0]
    /\ uploadCalls = {}
    /\ target = ZeroTarget
    /\ \E fbs \in {{}, {1}}, texs \in {{}, {1}} :
          gpu = [liveFb |-> fbs, liveTex |-> texs, attach |-> {}, boundFb |-> 0,
                 shader |-> 0, depthTest |-> FALSE]
    /\ glog = <<>>
    /\ tracelog = <<>>
    /\ liveBefore = [fb |-> gpu.liveFb, tex |-> gpu.liveTex]
    /\ req = [width |-> 0, height |-> 0]
    /\ createCalls = 0
    /\ unloadCalls = 0
    /\ camera = [position |-> 0, target |-> 0]
    /\ frames = 0
    /\ frameLog = <<>>
    /\ scopes = <<>>

RT_Create ==
    /\ pc = "rt_idle"
    /\ createCalls < MaxCycles
    /\ \E width \in Dims, height \in Dims : LoadRenderTextureDepthTex(width, height)
    /\ pc' = "rt_held"
    /\ UNCHANGED <<shaderVars, uniVars, unloadCalls, loopVars>>

RT_Destroy ==
    /\ pc = "rt_held"
    /\ UnloadRenderTextureDepthTex(target)
    /\ pc' = "rt_destroyed"
    /\ UNCHANGED <<shaderVars, uniVars, loopVars>>

\* The caller's copy of the destroyed target goes out of scope
RT_Reset ==
    /\ pc = "rt_destroyed"
    /\ target' = ZeroTarget
    /\ glog' = <<>>
    /\ tracelog' = <<>>
    /\ req' = [width |-> 0, height |-> 0]
    /\ pc' = "rt_idle"
    /\ UNCHANGED <<shaderVars, uniVars, loopVars, gpu, liveBefore, createCalls,
                   unloadCalls>>

NextRT == RT_Create \/ RT_Destroy \/ RT_Reset

SpecRT == InitRT /\ [][NextRT]_vars

----------------------------------------------------------------------------
(* Properties *)

Ops(log) == [i \in 1..Len(log) |-> log[i].op]
Steps(log) == [i \in 1..Len(log) |-> log[i].step]
IsPrefix(a, b) == Len(a) <= Len(b) /\ a = SubSeq(b, 1, Len(a))
HasOp(log, ops) == \E i \in 1..Len(log) : log[i].op \in ops
HasStep(step) == \E i \in 1..Len(frameLog) : frameLog[i].step = step
Live(g) == [fb |-> g.liveFb, tex |-> g.liveTex]

\* C1: for width > 0 and height > 0, a target returned with a nonzero
\* framebuffer handle has color and depth textures of the requested width
\* and height, each with one mip level.
C1_RequestedDimensions ==
    (pc = "rt_held" /\ req.width > 0 /\ req.height > 0 /\ target.id # 0) =>
        /\ target.texture.width = req.width
        /\ target.depth.width = req.width
        /\ target.texture.height = req.height
        /\ target.depth.height = req.height
        /\ target.texture.mipmaps = 1
        /\ target.depth.mipmaps = 1

C1_Witness ==
    /\ pc = "rt_held"
    /\ req = [width |-> 1, height |-> 2]
    /\ target.id # 0
    /\ target.depth.width = 1
    /\ target.depth.height = 2

\* C2: when rlLoadFramebuffer returns 0, the function allocates no texture,
\* attaches nothing, logs one warning and returns the all-zero target, and
\* it does return.
C2_AllocationFailure ==
    (pc = "rt_held" /\ glog[1].op = "rlLoadFramebuffer" /\ glog[1].ret = 0) =>
        /\ ~HasOp(glog, {"rlLoadTexture", "rlLoadTextureDepth", "rlFramebufferAttach"})
        /\ Live(gpu) = liveBefore
        /\ \A a \in gpu.attach : a.fb # 0
        /\ tracelog = <<"LOG_WARNING">>
        /\ target = ZeroTarget

C2_Witness ==
    /\ pc = "rt_held"
    /\ glog = <<Call("rlLoadFramebuffer", 0, 0, "-", 0)>>
    /\ target.id = 0
    /\ req = [width |-> 2, height |-> 1]

\* C3: a target returned with a nonzero framebuffer handle has its color and
\* its depth attachment bound and passed the completeness check.
C3_ValidMeansComplete ==
    (pc = "rt_held" /\ target.id # 0) =>
        /\ target.texture.id # 0
        /\ target.depth.id # 0
        /\ [fb |-> target.id, tex |-> target.texture.id,
            slot |-> "RL_ATTACHMENT_COLOR_CHANNEL0"] \in gpu.attach
        /\ [fb |-> target.id, tex |-> target.depth.id,
            slot |-> "RL_ATTACHMENT_DEPTH"] \in gpu.attach
        /\ \E i \in 1..Len(glog) :
              glog[i].op = "rlFramebufferComplete" /\ glog[i].ret = 1

\* C4: UnloadRenderTextureDepthTex with target.id > 0 releases the color
\* texture, then the depth texture, then the framebuffer, and nothing else;
\* with target.id = 0 it makes no call and leaves the GPU state as it was.
C4_ReleaseOrder ==
    [][pc = "rt_held" =>
         IF target.id > 0
         THEN /\ Len(glog') = 3
              /\ glog'[1].op = "rlUnloadTexture"  /\ glog'[1].tex = target.texture.id
              /\ glog'[2].op = "rlUnloadTexture"  /\ glog'[2].tex = target.depth.id
              /\ glog'[3].op = "rlUnloadFramebuffer" /\ glog'[3].fb = target.id
         ELSE glog' = <<>> /\ gpu' = gpu]_vars

C4_Witness ==
    /\ pc = "rt_destroyed"
    /\ unloadCalls > 0
    /\ target.id > 0
    /\ target.texture.id > 0
    /\ target.depth.id > 0
    /\ Ops(glog) = <<"rlUnloadTexture", "rlUnloadTexture", "rlUnloadFramebuffer">>

StartupPcs ==
    {"InitWindow", "LoadShader_raymarch", "LoadShader_raster",
     "GetShaderLocation_camPos", "GetShaderLocation_camDir",
     "GetShaderLocation_screenCenter", "SetShaderValue_screenCenter",
     "LoadRenderTextureDepthTex"}
AfterUnloadPcs == {"UnloadShader_raymarch", "UnloadShader_raster", "CloseWindow", "done"}

\* C5: the target is created exactly once, before the first frame, and
\* unloaded exactly once, after the last frame and before CloseWindow, also
\* when the window closes before the first frame; no frame step runs after
\* the unload.
C5_CreateOnceUnloadOnce ==
    /\ createCalls = (IF pc \in StartupPcs THEN 0 ELSE 1)
    /\ unloadCalls = (IF pc \in AfterUnloadPcs THEN 1 ELSE 0)
    /\ pc \in StartupPcs => (frames = 0 /\ frameLog = <<>>)
    /\ pc \in {"CloseWindow", "done"} => (createCalls = 1 /\ unloadCalls = 1)

C5_Witness ==
    /\ pc = "done"
    /\ frames = 0
    /\ createCalls = 1
    /\ unloadCalls = 1

\* C6: once a created target has been destroyed, the live framebuffer and
\* texture handles are those that were live before the creation, whatever
\* the creation's outcome, so repeated cycles never grow the live set.
C6_NoHandleLeak ==
    pc \in {"rt_destroyed", "rt_idle"} =>
        /\ Live(gpu) = liveBefore
        /\ gpu.attach = {}
        /\ gpu.boundFb = 0

C6_Witness ==
    /\ pc = "rt_destroyed"
    /\ unloadCalls = 2
    /\ target.id > 0
    /\ target.texture.id > 0
    /\ target.depth.id = 0
    /\ liveBefore.tex = {1}

\* C7: main binds the target (BeginTextureMode) and blits its color texture
\* (DrawTextureRec) only when target.id is nonzero.
C7_GuardedUse ==
    (HasStep("BeginTextureMode") \/ HasStep("DrawTextureRec")) => target.id # 0

FrameOrder ==
    << "UpdateCamera", "SetShaderValue_camPos", "SetShaderValue_camDir",
       "BeginTextureMode", "ClearBackground_target", "rlEnableDepthTest",
       "BeginShaderMode_raymarch", "DrawRectangleRec", "EndShaderMode_raymarch",
       "BeginMode3D", "BeginShaderMode_raster", "DrawScene3D",
       "EndShaderMode_raster", "EndMode3D", "EndTextureMode",
       "BeginDrawing", "ClearBackground_window", "DrawTextureRec", "DrawFPS",
       "EndDrawing" >>

Direction(c) ==
    IF c.target > c.position THEN camDist
    ELSE IF c.target < c.position THEN -camDist ELSE 0

\* C8: every frame runs the same steps in the same order, none skipped or
\* repeated: camera update, camPos and camDir uploads from the updated
\* camera, target bound, cleared, depth test enabled, raymarch rectangle
\* under the raymarch shader, 3D scene under the raster shader in the same
\* bound target, target unbound, then window clear and blit.
C8_FrameOrder ==
    /\ IsPrefix(Steps(frameLog), FrameOrder)
    /\ (pc = "WindowShouldClose" /\ frames > 0) => Steps(frameLog) = FrameOrder
    /\ HasStep("SetShaderValue_camDir") =>
          (uni.camPos = camera.position /\ uni.camDir = Direction(camera))
    /\ \A i \in 1..Len(frameLog) :
          /\ frameLog[i].step = "DrawRectangleRec" =>
                /\ frameLog[i].shader = raymarch_shader
                /\ frameLog[i].fb = target.id
                /\ frameLog[i].depthTest
          /\ frameLog[i].step = "DrawScene3D" =>
                /\ frameLog[i].shader = raster_shader
                /\ frameLog[i].fb = target.id
                /\ frameLog[i].depthTest
          /\ frameLog[i].step \in {"ClearBackground_window", "DrawTextureRec"} =>
                /\ frameLog[i].fb = 0
                /\ frameLog[i].shader = 0

C8_Witness ==
    /\ pc = "WindowShouldClose"
    /\ frames = 2
    /\ Steps(frameLog) = FrameOrder
    /\ camera = [position |-> 0, target |-> 1]
    /\ uni.camDir = camDist

ResolvingPcs ==
    {"InitWindow", "LoadShader_raymarch", "LoadShader_raster",
     "GetShaderLocation_camPos", "GetShaderLocation_camDir",
     "GetShaderLocation_screenCenter"}

InFrame(step) == pc \notin (StartupPcs \cup {"SetupCamera", "WindowShouldClose"})
                 /\ pc \notin AfterUnloadPcs /\ pc # "UnloadRenderTextureDepthTex"
                 /\ HasStep(step)

\* C9: each of the three locations is resolved exactly once, against the
\* loaded raymarch shader, before the loop, and keeps that value; every
\* SetShaderValue call passes the raymarch shader and a location resolved
\* against it; screenCenter is uploaded once, before the loop; camPos and
\* camDir are uploaded once per frame.
C9_UniformLocations ==
    /\ \A n \in UniformNames : resolveCount[n] <= 1
    /\ pc \notin ResolvingPcs =>
          \A n \in UniformNames :
             /\ resolveCount[n] = 1
             /\ raymarch_shader # 0
             /\ march_locs[n] = [prog |-> raymarch_shader, name |-> n]
    /\ \A u \in uploadCalls :
          /\ u.shader = raymarch_shader
          /\ u.shader # raster_shader
          /\ u.loc.prog = u.shader
          /\ u.loc.name \in UniformNames
    /\ uploadCount["screenCenter"] =
          (IF pc \in ResolvingPcs \cup {"SetShaderValue_screenCenter"} THEN 0 ELSE 1)
    /\ uploadCount["camPos"] =
          frames + (IF InFrame("SetShaderValue_camPos") THEN 1 ELSE 0)
    /\ uploadCount["camDir"] =
          frames + (IF InFrame("SetShaderValue_camDir") THEN 1 ELSE 0)

C9_Witness ==
    /\ pc = "WindowShouldClose"
    /\ frames = 2
    /\ uploadCount = [camPos |-> 2, camDir |-> 2, screenCenter |-> 1]
    /\ Cardinality(uploadCalls) = 3

LegalScopes ==
    { <<>>, <<"texture">>, <<"texture", "shader">>, <<"texture", "3d">>,
      <<"texture", "3d", "shader">>, <<"drawing">> }

ClosedBy(step) ==
    CASE step \in {"EndShaderMode_raymarch", "EndShaderMode_raster"} -> "shader"
      [] step = "EndMode3D" -> "3d"
      [] step = "EndTextureMode" -> "texture"
      [] step = "EndDrawing" -> "drawing"
      [] OTHER -> "none"

\* C10: the open scopes always form a legal nesting; each End closes the
\* innermost open scope, which is of its own kind; no scope is open at the
\* loop test or during shutdown; and LoadRenderTextureDepthTex disables the
\* framebuffer it enabled before it returns.
C10_ScopesMatched ==
    /\ scopes \in LegalScopes
    /\ ClosedBy(pc) # "none" => (scopes # <<>> /\ scopes[Len(scopes)] = ClosedBy(pc))
    /\ pc \in {"WindowShouldClose", "UnloadRenderTextureDepthTex"} \cup AfterUnloadPcs
          => scopes = <<>>
    /\ scopes = <<>> => gpu.boundFb = 0
    /\ (createCalls = 1 /\ unloadCalls = 0) =>
          \A i \in 1..Len(glog) :
             glog[i].op = "rlEnableFramebuffer" =>
                \E j \in (i + 1)..Len(glog) : glog[j].op = "rlDisableFramebuffer"

C10_Witness ==
    /\ pc = "EndShaderMode_raster"
    /\ scopes = <<"texture", "3d", "shader">>
    /\ target.id # 0
    /\ gpu.boundFb = target.id
    /\ HasOp(glog, {"rlEnableFramebuffer"})

====
